---- MODULE Spec2Model ----
(***************************************************************************)
(* Citation-graph core of main_grafo.py: text normalisation, the Jaccard   *)
(* similarity score, GrafoDirigido, construir_grafo, dijkstra,             *)
(* reconstruir_camino, kosaraju_scc and buscar_por_titulo.                 *)
(*                                                                         *)
(* A Python str is a sequence of characters; a character is a TLA+ string  *)
(* naming one code point.  A float score is the exact rational it stands   *)
(* for, kept as an integer number of 1/Den units.                          *)
(***************************************************************************)
EXTENDS Integers, Sequences, FiniteSets, TLC

(***************************************************************************)
(* Characters.                                                             *)
(***************************************************************************)
Minusculas ==
    {"a", "b", "c", "d", "e", "g", "h", "i", "j", "l", "m", "n", "o", "p", "r",
     "s", "t", "u", "v", "y"}
Digitos == {"2"}
Mayusculas == {"A", "E", "G", "J", "S"}
\* precomposed accented letters (one code point each)
Acentuadas == {"a_acute", "E_acute"}
\* combining marks, as NFKD produces them
Combinantes == {"comb_acute"}
Blancos == {" "}
Signos == {";", ",", "|", "-", "#"}
Alfabeto ==
    Minusculas \cup Digitos \cup Mayusculas \cup Acentuadas \cup Combinantes
        \cup Blancos \cup Signos
AlfaNum == Minusculas \cup Digitos

Range(s) == {s[i] : i \in 1..Len(s)}

\* unicodedata.normalize("NFKD", c) of one character
Nfkd(c) ==
    CASE c = "a_acute" -> <<"a", "comb_acute">>
      [] c = "E_acute" -> <<"E", "comb_acute">>
      [] OTHER -> <<c>>

\* str.lower() of one character
Lower(c) ==
    CASE c = "A" -> "a"
      [] c = "E" -> "e"
      [] c = "G" -> "g"
      [] c = "J" -> "j"
      [] c = "S" -> "s"
      [] OTHER -> c

RECURSIVE NfkdStr(_)
NfkdStr(s) == IF s = <<>> THEN <<>> ELSE Nfkd(Head(s)) \o NfkdStr(Tail(s))

\* re.sub(clase+, " ", s): every maximal run of characters of clase becomes
\* one space
RECURSIVE SubRuns(_, _)
SubRuns(s, clase) ==
    IF s = <<>> THEN <<>>
    ELSE IF Head(s) \in clase
         THEN IF Len(s) > 1 /\ s[2] \in clase
              THEN SubRuns(Tail(s), clase)
              ELSE <<" ">> \o SubRuns(Tail(s), clase)
         ELSE <<Head(s)>> \o SubRuns(Tail(s), clase)

RECURSIVE LStrip(_)
LStrip(s) ==
    IF s # <<>> /\ Head(s) \in Blancos THEN LStrip(Tail(s)) ELSE s

RECURSIVE RStrip(_)
RStrip(s) ==
    IF s # <<>> /\ s[Len(s)] \in Blancos
    THEN RStrip(SubSeq(s, 1, Len(s) - 1))
    ELSE s

\* str.strip()
Strip(s) == RStrip(LStrip(s))

\* _norm_text
NormText(s) ==
    IF s = <<>> THEN <<>>
    ELSE LET s1 == NfkdStr(s)
             s2 == SelectSeq(s1, LAMBDA c : c \notin Combinantes)
             s3 == [i \in 1..Len(s2) |-> Lower(s2[i])]
             s4 == SubRuns(s3, Alfabeto \ AlfaNum)
         IN  Strip(SubRuns(s4, Blancos))

\* re.split(seps, s): the parts between separators, empty parts included
RECURSIVE ReSplit(_, _, _)
ReSplit(s, seps, cur) ==
    IF s = <<>> THEN <<cur>>
    ELSE IF Head(s) \in seps
         THEN <<cur>> \o ReSplit(Tail(s), seps, <<>>)
         ELSE ReSplit(Tail(s), seps, Append(cur, Head(s)))

\* str.split(): the maximal runs of non-blank characters
SplitWs(s) == SelectSeq(ReSplit(s, Blancos, <<>>), LAMBDA p : p # <<>>)

\* mutant of Tokens: set(s), the characters of s, where set(s.split()) is
\* meant
TokensPorCaracter(s) == IF s = <<>> THEN {} ELSE Range(s)

\* _tokens
Tokens(s) == IF s = <<>> THEN {} ELSE Range(SplitWs(s))

\* the shared body of _split_authors and _split_keywords
SplitList(s, seps) ==
    IF s = <<>> THEN <<>>
    ELSE LET raw == ReSplit(s, seps, <<>>)
             kept == SelectSeq(raw, LAMBDA p : Strip(p) # <<>>)
             parts == [i \in 1..Len(kept) |-> Strip(kept[i])]
             parts2 == SelectSeq(parts, LAMBDA p : p # <<>>)
         IN  [i \in 1..Len(parts2) |-> NormText(parts2[i])]

SplitAuthors(s) == SplitList(s, {";", ","})

SplitKeywords(s) == SplitList(s, {";", ",", "|"})

(***************************************************************************)
(* Scores.  jaccard returns a multiple of 1/Unidad, similitud_articulos a  *)
(* multiple of 1/Den; both are exact for every article of Catalogo.        *)
(***************************************************************************)
\* dict.get(campo, "")
Get(a, campo) == IF campo \in DOMAIN a THEN a[campo] ELSE <<>>

\* The article records the inputs are drawn from (rows of the unified CSV,
\* some with cells or whole fields missing).
ArtA ==
    [title |-> <<"G", " ", "a", " ", "e">>, authors |-> <<"S">>,
     keywords |-> <<"g", ";", "e">>, year |-> <<"2">>]
ArtB ==
    [title |-> <<"g", " ", "a", " ", "t">>, authors |-> <<"s">>,
     keywords |-> <<"g">>, doi |-> <<"b">>]
ArtC ==
    [title |-> <<"b", "o">>, authors |-> <<"j">>, keywords |-> <<"o">>,
     url |-> <<"o">>]
ArtD ==
    [title |-> <<"a_acute", "-", "E_acute">>,
     keywords |-> <<"e", "|", " ", "t">>]
ArtE ==
    [title |-> <<"g">>, authors |-> <<"#", ";", "s">>, keywords |-> <<>>]
Catalogo == {ArtA, ArtB, ArtC, ArtD, ArtE}

\* The three articles of the worked example: two on generative AI in
\* education by Smith, one on birds by Jones.
EscA ==
    [title |->
        <<"g", "e", "n", "e", "r", "a", "t", "i", "v", "e", " ", "a", "i",
          " ", "i", "n", " ", "e", "d", "u", "c", "a", "t", "i", "o", "n">>,
     authors |-> <<"S", "m", "i", "t", "h">>,
     keywords |->
        <<"g", "e", "n", "a", "i", ";", "e", "d", "u", "c", "a", "t", "i",
          "o", "n">>]
EscB ==
    [title |->
        <<"g", "e", "n", "e", "r", "a", "t", "i", "v", "e", " ", "a", "i",
          " ", "e", "d", "u", "c", "a", "t", "i", "o", "n", " ", "t", "o",
          "o", "l", "s">>,
     authors |-> <<"S", "m", "i", "t", "h">>,
     keywords |->
        <<"g", "e", "n", "a", "i">>]
EscC ==
    [title |->
        <<"u", "n", "r", "e", "l", "a", "t", "e", "d", " ", "t", "o", "p",
          "i", "c", " ", "a", "b", "o", "u", "t", " ", "b", "i", "r", "d",
          "s">>,
     authors |-> <<"J", "o", "n", "e", "s">>,
     keywords |->
        <<"o", "r", "n", "i", "t", "h", "o", "l", "o", "g", "y">>]

SetMax(S) == CHOOSE x \in S : \A y \in S : y <= x

RECURSIVE Gcd(_, _)
Gcd(a, b) == IF b = 0 THEN a ELSE Gcd(b, a % b)

RECURSIVE LcmUpTo(_)
LcmUpTo(n) ==
    IF n <= 1 THEN 1 ELSE LET l == LcmUpTo(n - 1) IN (l * n) \div Gcd(l, n)

\* the largest set any field of a catalogue article yields
MaxConj ==
    SetMax({Cardinality(Tokens(NormText(Get(a, "title")))) : a \in Catalogo}
           \cup {Cardinality(Range(SplitAuthors(Get(a, "authors")))) :
                   a \in Catalogo}
           \cup {Cardinality(Range(SplitKeywords(Get(a, "keywords")))) :
                   a \in Catalogo})

\* every |A union B| that can occur divides Unidad
Unidad == LcmUpTo(2 * MaxConj)

\* 1.0
Den == 10 * Unidad

\* mutant of Jaccard: two empty sets are as similar as two equal sets
JaccardVaciosUno(a, b) ==
    IF a = {} /\ b = {} THEN Unidad
    ELSE LET inter == Cardinality(a \cap b)
             union == Cardinality(a \cup b)
         IN  IF union # 0 THEN (Unidad * inter) \div union ELSE 0

\* mutant of Jaccard: the intersection is divided by the size of the first
\* set, not of the union
JaccardSobrePrimero(a, b) ==
    IF a = {} /\ b = {} THEN 0
    ELSE LET inter == Cardinality(a \cap b)
             primero == Cardinality(a)
         IN  IF primero # 0 THEN (Unidad * inter) \div primero ELSE 0

\* jaccard
Jaccard(a, b) ==
    IF a = {} /\ b = {} THEN 0
    ELSE LET inter == Cardinality(a \cap b)
             union == Cardinality(a \cup b)
         IN  IF union # 0 THEN (Unidad * inter) \div union ELSE 0

\* mutant of SimilitudArticulos: the three terms are added without weights
SimilitudSinPesos(a, b) ==
    10 * Jaccard(Tokens(NormText(Get(a, "title"))),
                 Tokens(NormText(Get(b, "title"))))
        + 10 * Jaccard(Range(SplitAuthors(Get(a, "authors"))),
                       Range(SplitAuthors(Get(b, "authors"))))
        + 10 * Jaccard(Range(SplitKeywords(Get(a, "keywords"))),
                       Range(SplitKeywords(Get(b, "keywords"))))

\* similitud_articulos: 0.5 * sim_title + 0.3 * sim_auth + 0.2 * sim_kw
SimilitudArticulos(a, b) ==
    LET t_a == Tokens(NormText(Get(a, "title")))
        t_b == Tokens(NormText(Get(b, "title")))
        sim_title == Jaccard(t_a, t_b)
        au_a == Range(SplitAuthors(Get(a, "authors")))
        au_b == Range(SplitAuthors(Get(b, "authors")))
        sim_auth == Jaccard(au_a, au_b)
        kw_a == Range(SplitKeywords(Get(a, "keywords")))
        kw_b == Range(SplitKeywords(Get(b, "keywords")))
        sim_kw == Jaccard(kw_a, kw_b)
    IN  5 * sim_title + 3 * sim_auth + 2 * sim_kw

(***************************************************************************)
(* GrafoDirigido.  nodos is a dict: ids holds its keys in insertion order, *)
(* nodos the values.  adj is a defaultdict(list): its domain is the set of *)
(* keys present.                                                           *)
(***************************************************************************)
GrafoVacio == [ids |-> <<>>, nodos |-> <<>>, adj |-> <<>>]

\* mutant of AgregarNodo: an id that is added again moves to the end of the
\* order
AgregarNodoAlFinal(G, node_id, data) ==
    [G EXCEPT
       !.ids = Append(SelectSeq(@, LAMBDA x : x # node_id), node_id),
       !.nodos = [k \in DOMAIN G.nodos \cup {node_id} |->
                    IF k = node_id THEN data ELSE G.nodos[k]]]

AgregarNodo(G, node_id, data) ==
    [G EXCEPT
       !.ids = IF node_id \in DOMAIN G.nodos THEN @ ELSE Append(@, node_id),
       !.nodos = [k \in DOMAIN G.nodos \cup {node_id} |->
                    IF k = node_id THEN data ELSE G.nodos[k]]]

AgregarArista(G, u, v, peso) ==
    [G EXCEPT
       !.adj = [k \in DOMAIN G.adj \cup {u} |->
                  IF k = u
                  THEN (IF u \in DOMAIN G.adj THEN G.adj[u] ELSE <<>>)
                           \o <<<<v, peso>>>>
                  ELSE G.adj[k]]]

Vecinos(G, u) == IF u \in DOMAIN G.adj THEN G.adj[u] ELSE <<>>

NodosIds(G) == G.ids

(***************************************************************************)
(* construir_grafo.                                                        *)
(***************************************************************************)
\* mutant of NodoData: the default of a missing title is a placeholder text
NodoDataConRelleno(art) ==
    [title |-> IF "title" \in DOMAIN art THEN art["title"] ELSE <<"s">>,
     authors |-> Get(art, "authors"),
     keywords |-> Get(art, "keywords"), year |-> Get(art, "year"),
     doi |-> Get(art, "doi"), url |-> Get(art, "url")]

\* the metadata copied into a node (lines 207-214)
NodoData(art) ==
    [title |-> Get(art, "title"), authors |-> Get(art, "authors"),
     keywords |-> Get(art, "keywords"), year |-> Get(art, "year"),
     doi |-> Get(art, "doi"), url |-> Get(art, "url")]

\* step (1): one node per article, id = index in the list
RECURSIVE CrearNodos(_, _, _)
CrearNodos(G, articulos, idx) ==
    IF idx >= Len(articulos) THEN G
    ELSE CrearNodos(AgregarNodo(G, idx, NodoData(articulos[idx + 1])),
                    articulos, idx + 1)

\* mutant of Candidatos: the test "if sim >= umbral_similitud" is missing
RECURSIVE CandidatosSinUmbral(_, _, _, _)
CandidatosSinUmbral(articulos, umbral, i, j) ==
    IF j >= Len(articulos) THEN <<>>
    ELSE IF i = j THEN CandidatosSinUmbral(articulos, umbral, i, j + 1)
    ELSE <<<<j, SimilitudArticulos(articulos[i + 1], articulos[j + 1])>>>>
             \o CandidatosSinUmbral(articulos, umbral, i, j + 1)

\* mutant of Candidatos: the scan starts after i, so that each pair is
\* looked at once
RECURSIVE CandidatosSoloMayores(_, _, _, _)
CandidatosSoloMayores(articulos, umbral, i, j) ==
    IF j >= Len(articulos) THEN <<>>
    ELSE IF j <= i THEN CandidatosSoloMayores(articulos, umbral, i, j + 1)
    ELSE LET sim == SimilitudArticulos(articulos[i + 1], articulos[j + 1])
         IN  IF sim >= umbral
             THEN <<<<j, sim>>>>
                      \o CandidatosSoloMayores(articulos, umbral, i, j + 1)
             ELSE CandidatosSoloMayores(articulos, umbral, i, j + 1)

\* mutant of Candidatos: the test "if i == j: continue" is missing
RECURSIVE CandidatosConBucle(_, _, _, _)
CandidatosConBucle(articulos, umbral, i, j) ==
    IF j >= Len(articulos) THEN <<>>
    ELSE LET sim == SimilitudArticulos(articulos[i + 1], articulos[j + 1])
         IN  IF sim >= umbral
             THEN <<<<j, sim>>>>
                      \o CandidatosConBucle(articulos, umbral, i, j + 1)
             ELSE CandidatosConBucle(articulos, umbral, i, j + 1)

\* the inner loop over j (lines 221-227), from j on
RECURSIVE Candidatos(_, _, _, _)
Candidatos(articulos, umbral, i, j) ==
    IF j >= Len(articulos) THEN <<>>
    ELSE IF i = j THEN Candidatos(articulos, umbral, i, j + 1)
    ELSE LET sim == SimilitudArticulos(articulos[i + 1], articulos[j + 1])
         IN  IF sim >= umbral
             THEN <<<<j, sim>>>> \o Candidatos(articulos, umbral, i, j + 1)
             ELSE Candidatos(articulos, umbral, i, j + 1)

\* mutant of InsertDesc: x goes before the elements of equal score (a sort
\* that is not stable)
RECURSIVE InsertDescInestable(_, _)
InsertDescInestable(s, x) ==
    IF s = <<>> THEN <<x>>
    ELSE IF Head(s)[2] > x[2]
         THEN <<Head(s)>> \o InsertDescInestable(Tail(s), x)
    ELSE <<x>> \o s

\* x goes after every element whose score is >= its own
RECURSIVE InsertDesc(_, _)
InsertDesc(s, x) ==
    IF s = <<>> THEN <<x>>
    ELSE IF Head(s)[2] >= x[2] THEN <<Head(s)>> \o InsertDesc(Tail(s), x)
    ELSE <<x>> \o s

\* list.sort(key=lambda x: x[1], reverse=True): stable, descending
RECURSIVE SortDesc(_)
SortDesc(s) ==
    IF s = <<>> THEN <<>>
    ELSE InsertDesc(SortDesc(SubSeq(s, 1, Len(s) - 1)), s[Len(s)])

\* s[:k] of a Python list, k of either sign
Prefijo(s, k) ==
    IF k >= 0 THEN SubSeq(s, 1, IF k < Len(s) THEN k ELSE Len(s))
    ELSE SubSeq(s, 1, IF Len(s) + k > 0 THEN Len(s) + k ELSE 0)

\* candidatos of node i after sort and truncation (lines 230-231)
TopK(articulos, umbral, max_salientes, i) ==
    Prefijo(SortDesc(Candidatos(articulos, umbral, i, 0)), max_salientes)

\* mutant of Peso: the weight is the similarity itself
PesoSinInvertir(sim) == sim

\* peso = 1.0 - sim
Peso(sim) == Den - sim

\* mutant of AgregarAristas: every edge is added in both directions, as for
\* an undirected graph
RECURSIVE AgregarAristasSimetrico(_, _, _)
AgregarAristasSimetrico(G, i, cands) ==
    IF cands = <<>> THEN G
    ELSE LET j == Head(cands)[1]
             peso == Peso(Head(cands)[2])
         IN  AgregarAristasSimetrico(
                 AgregarArista(AgregarArista(G, i, j, peso), j, i, peso),
                 i, Tail(cands))

\* step (4) for one node: its retained candidates become edges
RECURSIVE AgregarAristas(_, _, _)
AgregarAristas(G, i, cands) ==
    IF cands = <<>> THEN G
    ELSE AgregarAristas(
             AgregarArista(G, i, Head(cands)[1], Peso(Head(cands)[2])),
             i, Tail(cands))

\* the outer loop over i (lines 218-236), from i on
RECURSIVE CrearAristas(_, _, _, _, _)
CrearAristas(G, articulos, umbral, max_salientes, i) ==
    IF i >= Len(articulos) THEN G
    ELSE CrearAristas(
             AgregarAristas(G, i, TopK(articulos, umbral, max_salientes, i)),
             articulos, umbral, max_salientes, i + 1)

ConstruirGrafo(articulos, umbral, max_salientes) ==
    CrearAristas(CrearNodos(GrafoVacio, articulos, 0),
                 articulos, umbral, max_salientes, 0)

(***************************************************************************)
(* dijkstra and reconstruir_camino.  float("inf") is Inf; a distance is an *)
(* integer number of 1/Den units otherwise.  None is the empty tuple and a *)
(* predecessor u the tuple <<u>>.                                          *)
(***************************************************************************)
Inf == -1

None == <<>>

\* x < y on floats, either of which may be inf
FloatLt(x, y) == x # Inf /\ (y = Inf \/ x < y)

\* d[k] = v on a dict
DictSet(d, k, v) == [x \in DOMAIN d \cup {k} |-> IF x = k THEN v ELSE d[x]]

\* mutant of DijkstraInit: the source is a key of dist, but dist[origen] = 0.0
\* is missing
DijkstraInitSinCero(G, o) ==
    [dist |-> [u \in Range(NodosIds(G)) \cup {o} |-> Inf],
     prev |-> [u \in Range(NodosIds(G)) |-> None],
     pq |-> {<<0, o>>},
     error |-> FALSE,
     asentados |-> <<>>]

\* lines 256-261: the state of the call when the while loop is first reached;
\* asentados is the history of the run: the entries (d_u, u) popped so far
\* that were not skipped as stale, in the order they were popped
DijkstraInit(G, o) ==
    [dist |-> DictSet([u \in Range(NodosIds(G)) |-> Inf], o, 0),
     prev |-> [u \in Range(NodosIds(G)) |-> None],
     pq |-> {<<0, o>>},
     error |-> FALSE,
     asentados |-> <<>>]

\* mutant of HeapMin: the greatest tuple is taken, as from a max-heap
HeapMax(pq) ==
    CHOOSE e \in pq :
        \A f \in pq : e[1] > f[1] \/ (e[1] = f[1] /\ e[2] >= f[2])

\* the entry heapq.heappop returns: the least (distance, node) tuple
HeapMin(pq) ==
    CHOOSE e \in pq :
        \A f \in pq : e[1] < f[1] \/ (e[1] = f[1] /\ e[2] <= f[2])

\* the for loop of lines 269-274 over the edges vs of u; dist[v] of an id
\* that is no key raises KeyError
RECURSIVE Relajar(_, _, _, _)
Relajar(st, u, d_u, vs) ==
    IF vs = <<>> \/ st.error THEN st
    ELSE LET v == Head(vs)[1]
             w == Head(vs)[2]
             alt == d_u + w
         IN  IF v \notin DOMAIN st.dist
             THEN [st EXCEPT !.error = TRUE]
             ELSE IF FloatLt(alt, st.dist[v])
                  THEN Relajar([st EXCEPT !.dist[v] = alt,
                                          !.prev = DictSet(@, v, <<u>>),
                                          !.pq = @ \cup {<<alt, v>>}],
                               u, d_u, Tail(vs))
                  ELSE Relajar(st, u, d_u, Tail(vs))

\* mutant of DijkstraPaso: the stale test reads d_u >= dist[u]
DijkstraPasoMayorIgual(G, st) ==
    LET e == HeapMin(st.pq)
        d_u == e[1]
        u == e[2]
        st1 == [st EXCEPT !.pq = @ \ {e}]
    IN  IF ~FloatLt(d_u, st.dist[u]) THEN st1
        ELSE Relajar([st1 EXCEPT !.asentados = Append(@, e)], u, d_u,
                     Vecinos(G, u))

\* mutant of DijkstraPaso: the least entry is read as pq[0] and stays in the
\* queue
DijkstraPasoSinPop(G, st) ==
    LET e == HeapMin(st.pq)
        d_u == e[1]
        u == e[2]
    IN  IF FloatLt(st.dist[u], d_u) THEN st
        ELSE Relajar(st, u, d_u, Vecinos(G, u))

\* mutant of DijkstraPaso: the test "if d_u > dist[u]: continue" is missing
DijkstraPasoSinObsoletos(G, st) ==
    LET e == HeapMin(st.pq)
        d_u == e[1]
        u == e[2]
        st1 == [st EXCEPT !.pq = @ \ {e}]
    IN  Relajar([st1 EXCEPT !.asentados = Append(@, e)], u, d_u,
                Vecinos(G, u))

\* one iteration of the while loop (lines 263-274)
DijkstraPaso(G, st) ==
    LET e == HeapMin(st.pq)
        d_u == e[1]
        u == e[2]
        st1 == [st EXCEPT !.pq = @ \ {e}]
    IN  IF FloatLt(st.dist[u], d_u) THEN st1
        ELSE Relajar([st1 EXCEPT !.asentados = Append(@, e)], u, d_u,
                     Vecinos(G, u))

\* mutant of CaminoAtras: the loop reads "while prev[cur] is not None", so
\* the node without predecessor is never appended
RECURSIVE CaminoAtrasSinOrigen(_, _)
CaminoAtrasSinOrigen(prev, cur) ==
    IF cur[1] \notin DOMAIN prev THEN [error |-> TRUE, camino |-> <<>>]
    ELSE IF prev[cur[1]] = None THEN [error |-> FALSE, camino |-> <<>>]
    ELSE LET r == CaminoAtrasSinOrigen(prev, prev[cur[1]])
         IN  [r EXCEPT !.camino = <<cur[1]>> \o @]

\* reconstruir_camino: the list built by the while loop, before reverse();
\* prev[cur] of an id that is no key raises KeyError
RECURSIVE CaminoAtras(_, _)
CaminoAtras(prev, cur) ==
    IF cur = None THEN [error |-> FALSE, camino |-> <<>>]
    ELSE IF cur[1] \notin DOMAIN prev THEN [error |-> TRUE, camino |-> <<>>]
    ELSE LET r == CaminoAtras(prev, prev[cur[1]])
         IN  [r EXCEPT !.camino = <<cur[1]>> \o @]

Reverse(s) == [i \in 1..Len(s) |-> s[Len(s) + 1 - i]]

\* mutant of ReconstruirCamino: camino.reverse() is missing
ReconstruirCaminoSinInvertir(prev, destino) ==
    CaminoAtras(prev, <<destino>>)

ReconstruirCamino(prev, destino) ==
    LET r == CaminoAtras(prev, <<destino>>)
    IN  IF r.error THEN r ELSE [r EXCEPT !.camino = Reverse(@)]

(***************************************************************************)
(* kosaraju_scc.                                                           *)
(***************************************************************************)
\* dfs1(u) on the closure state st = [visit, orden]
RECURSIVE Dfs1(_, _, _)
RECURSIVE Dfs1Vecinos(_, _, _)
Dfs1(G, u, st) ==
    LET st1 == [st EXCEPT !.visit = @ \cup {u}]
        st2 == Dfs1Vecinos(G, Vecinos(G, u), st1)
    IN  [st2 EXCEPT !.orden = Append(@, u)]

Dfs1Vecinos(G, vs, st) ==
    IF vs = <<>> THEN st
    ELSE LET v == Head(vs)[1]
         IN  Dfs1Vecinos(G, Tail(vs),
                         IF v \notin st.visit THEN Dfs1(G, v, st) ELSE st)

\* lines 320-323: GT[v].append(u) for every edge u -> v, in node order
RECURSIVE TransponerFila(_, _, _)
TransponerFila(GT, u, vs) ==
    IF vs = <<>> THEN GT
    ELSE LET v == Head(vs)[1]
         IN  TransponerFila(
                 DictSet(GT, v,
                         (IF v \in DOMAIN GT THEN GT[v] ELSE <<>>) \o <<u>>),
                 u, Tail(vs))

\* mutant of Transponer: GT[u].append(v), the edges are not reversed
TransponerSinInvertir(G, GT, ids) ==
    [u \in DOMAIN G.adj |-> [i \in 1..Len(G.adj[u]) |-> G.adj[u][i][1]]]

RECURSIVE Transponer(_, _, _)
Transponer(G, GT, ids) ==
    IF ids = <<>> THEN GT
    ELSE Transponer(G, TransponerFila(GT, Head(ids), Vecinos(G, Head(ids))),
                    Tail(ids))

\* dfs2(u, comp) on st = [visit, comp, GT]; GT[u] on the defaultdict
\* creates the key u when it is absent
RECURSIVE Dfs2(_, _)
RECURSIVE Dfs2Vecinos(_, _)
Dfs2(u, st) ==
    LET st1 == [st EXCEPT !.visit = @ \cup {u},
                          !.comp = Append(@, u),
                          !.GT = IF u \in DOMAIN @ THEN @
                                 ELSE DictSet(@, u, <<>>)]
    IN  Dfs2Vecinos(st1.GT[u], st1)

Dfs2Vecinos(ws, st) ==
    IF ws = <<>> THEN st
    ELSE Dfs2Vecinos(Tail(ws),
                     IF Head(ws) \notin st.visit THEN Dfs2(Head(ws), st)
                     ELSE st)

(***************************************************************************)
(* buscar_por_titulo.                                                      *)
(***************************************************************************)
\* sub in s, on two str
Contiene(s, sub) ==
    \E p \in 0..(Len(s) - Len(sub)) : SubSeq(s, p + 1, p + Len(sub)) = sub

\* the for loop of lines 355-360 over the nodes ids, in the order of
\* G.nodos.items(); frag is the normalised fragment
RECURSIVE BuscarDesde(_, _, _, _, _)
BuscarDesde(G, frag, k, ids, resultados) ==
    IF ids = <<>> THEN resultados
    ELSE LET i == Head(ids)
             data == G.nodos[i]
             titulo_norm == NormText(Get(data, "title"))
         IN  IF frag # <<>> /\ Contiene(titulo_norm, frag)
             THEN LET r2 == Append(resultados, <<i, Get(data, "title")>>)
                  IN  IF Len(r2) >= k THEN r2
                      ELSE BuscarDesde(G, frag, k, Tail(ids), r2)
             ELSE BuscarDesde(G, frag, k, Tail(ids), resultados)

\* mutant of BuscarPorTitulo: the fragment is compared as it was typed
BuscarPorTituloSinNormalizar(G, fragmento, k) ==
    BuscarDesde(G, fragmento, k, NodosIds(G), <<>>)

BuscarPorTitulo(G, fragmento, k) ==
    BuscarDesde(G, NormText(fragmento), k, NodosIds(G), <<>>)

(***************************************************************************)
(* The program: one call of construir_grafo on the inputs, then any        *)
(* sequence of queries on the graph it returned.                           *)
(***************************************************************************)
\* most articles in the input list
MaxN == 3
\* largest max_salientes_por_nodo tried; the least is -1
MaxK == 2

\* umbral_similitud: negative, 0, 0.2, 0.35 (the default) and 0.5
Umbrales == {-1, 0, Den \div 5, (7 * Den) \div 20, Den \div 2}

\* the articles of the longest lists
Nucleo == {ArtA, ArtB, ArtE}

SeqsUpTo(S, n) == UNION {[1..k -> S] : k \in 0..n}

\* every list of at most MaxN catalogue articles, and every list of
\* MaxN + 1 articles of Nucleo
Listas == SeqsUpTo(Catalogo, MaxN) \cup [1..(MaxN + 1) -> Nucleo]

\* the fragments buscar_por_titulo is called with: the empty one, one that
\* normalises to the empty one, and three that differ from their
\* normalisation by case, by an accent and by punctuation
Fragmentos ==
    {<<>>, <<"#">>, <<"G">>, <<"E_acute">>, <<"A", "-", "e">>}

\* the fields a node keeps
Campos == {"title", "authors", "keywords", "year", "doi", "url"}

\* the dict a without the keys outside S
Restringir(a, S) == [c \in DOMAIN a \cap S |-> a[c]]

\* the catalogue articles with any subset of their fields missing
Registros == {Restringir(a, S) : a \in Catalogo, S \in SUBSET Campos}

VARIABLES
    articulos,      \* the article list passed to construir_grafo
    umbral,         \* umbral_similitud
    max_salientes,  \* max_salientes_por_nodo
    G,              \* the GrafoDirigido
    pc,             \* where the program is
    origen,         \* dijkstra: its source argument
    dj,             \* dijkstra: dist, prev, pq and whether it raised
    destino,        \* reconstruir_camino: its target argument
    camino,         \* reconstruir_camino: what it returned or raised
    ks,             \* kosaraju_scc: visit, orden, GT, componentes
    k,              \* kosaraju_scc: position of the running for loop
    llamada,        \* the last call of a function that returns at once
    retorno,        \* what that call returned
    historia        \* the calls of agregar_nodo and agregar_arista made
                    \* on G by hand, oldest first

vars ==
    <<articulos, umbral, max_salientes, G, pc, origen, dj, destino, camino,
      ks, k, llamada, retorno, historia>>

\* values of the locals while no call is running
SinDijkstra ==
    [dist |-> <<>>, prev |-> <<>>, pq |-> {}, error |-> FALSE,
     asentados |-> <<>>]
SinCamino == [error |-> FALSE, camino |-> <<>>]
SinKosaraju ==
    [visit |-> {}, orden |-> <<>>, GT |-> <<>>, componentes |-> <<>>]
SinLlamada == [op |-> "ninguna"]

Init ==
    /\ articulos \in Listas
    /\ umbral \in Umbrales
    /\ max_salientes \in -1..MaxK
    /\ G = GrafoVacio
    /\ pc = "inicio"
    /\ origen = 0
    /\ dj = SinDijkstra
    /\ destino = 0
    /\ camino = SinCamino
    /\ ks = SinKosaraju
    /\ k = 0
    /\ llamada = SinLlamada
    /\ retorno = <<>>
    /\ historia = <<>>

\* G = construir_grafo(articulos, umbral, max_salientes)
Construir ==
    /\ pc = "inicio"
    /\ G' = ConstruirGrafo(articulos, umbral, max_salientes)
    /\ pc' = "listo"
    /\ UNCHANGED <<articulos, umbral, max_salientes, origen, dj, destino,
                   camino, ks, k, llamada, retorno, historia>>

\* the ids a caller may pass: those of the graph and one that is no node
Ids == Range(NodosIds(G)) \cup {Len(NodosIds(G))}

\* dijkstra(G, o) is called and reaches its while loop
DijkstraLlamar ==
    /\ pc = "listo"
    /\ \E o \in Ids :
        /\ origen' = o
        /\ dj' = DijkstraInit(G, o)
    /\ pc' = "dijkstra"
    /\ UNCHANGED <<articulos, umbral, max_salientes, G, destino, camino, ks,
                   k, llamada, retorno, historia>>

\* one iteration of the while loop
DijkstraIterar ==
    /\ pc = "dijkstra"
    /\ dj.pq # {}
    /\ ~dj.error
    /\ dj' = DijkstraPaso(G, dj)
    /\ UNCHANGED <<articulos, umbral, max_salientes, G, pc, origen, destino,
                   camino, ks, k, llamada, retorno, historia>>

\* the loop ends and dijkstra returns (dist, prev), or it raised
DijkstraRetornar ==
    /\ pc = "dijkstra"
    /\ dj.pq = {} \/ dj.error
    /\ pc' = IF dj.error THEN "dijkstra_error" ELSE "dijkstra_fin"
    /\ UNCHANGED <<articulos, umbral, max_salientes, G, origen, dj, destino,
                   camino, ks, k, llamada, retorno, historia>>

\* reconstruir_camino(prev, t) on the prev dijkstra returned
Reconstruir ==
    /\ pc = "dijkstra_fin"
    /\ \E t \in Ids \cup {origen} :
        /\ destino' = t
        /\ camino' = ReconstruirCamino(dj.prev, t)
    /\ pc' = "camino_fin"
    /\ UNCHANGED <<articulos, umbral, max_salientes, G, origen, dj, ks, k,
                   llamada, retorno, historia>>

\* kosaraju_scc(G) is called and reaches the for loop of line 315
KosarajuLlamar ==
    /\ pc = "listo"
    /\ ks' = SinKosaraju
    /\ k' = 0
    /\ pc' = "scc_paso1"
    /\ UNCHANGED <<articulos, umbral, max_salientes, G, origen, dj, destino,
                   camino, llamada, retorno, historia>>

\* one iteration of the for loop of lines 315-317
KosarajuPaso1 ==
    /\ pc = "scc_paso1"
    /\ k < Len(NodosIds(G))
    /\ LET u == NodosIds(G)[k + 1]
       IN  ks' = IF u \notin ks.visit
                 THEN LET st == Dfs1(G, u, [visit |-> ks.visit,
                                            orden |-> ks.orden])
                      IN  [ks EXCEPT !.visit = st.visit, !.orden = st.orden]
                 ELSE ks
    /\ k' = k + 1
    /\ UNCHANGED <<articulos, umbral, max_salientes, G, pc, origen, dj,
                   destino, camino, llamada, retorno, historia>>

\* lines 320-327: the transpose is built and visit is cleared
KosarajuTransponer ==
    /\ pc = "scc_paso1"
    /\ k = Len(NodosIds(G))
    /\ ks' = [ks EXCEPT !.GT = Transponer(G, <<>>, NodosIds(G)),
                        !.visit = {}]
    /\ k' = 0
    /\ pc' = "scc_paso3"
    /\ UNCHANGED <<articulos, umbral, max_salientes, G, origen, dj, destino,
                   camino, llamada, retorno, historia>>

\* mutant of KosarajuPaso3: the test "if u not in visit" is missing
KosarajuPaso3SinVisit ==
    /\ pc = "scc_paso3"
    /\ k < Len(ks.orden)
    /\ LET u == ks.orden[Len(ks.orden) - k]
           st == Dfs2(u, [visit |-> ks.visit, comp |-> <<>>, GT |-> ks.GT])
       IN  ks' = [ks EXCEPT !.visit = st.visit, !.GT = st.GT,
                            !.componentes = Append(@, st.comp)]
    /\ k' = k + 1
    /\ UNCHANGED <<articulos, umbral, max_salientes, G, pc, origen, dj,
                   destino, camino, llamada, retorno, historia>>

\* mutant of KosarajuPaso3: the loop runs over orden, not reversed(orden)
KosarajuPaso3SinReversa ==
    /\ pc = "scc_paso3"
    /\ k < Len(ks.orden)
    /\ LET u == ks.orden[k + 1]
       IN  ks' = IF u \notin ks.visit
                 THEN LET st == Dfs2(u, [visit |-> ks.visit, comp |-> <<>>,
                                         GT |-> ks.GT])
                      IN  [ks EXCEPT !.visit = st.visit, !.GT = st.GT,
                                     !.componentes = Append(@, st.comp)]
                 ELSE ks
    /\ k' = k + 1
    /\ UNCHANGED <<articulos, umbral, max_salientes, G, pc, origen, dj,
                   destino, camino, llamada, retorno, historia>>

\* one iteration of the for loop of lines 336-340 over reversed(orden)
KosarajuPaso3 ==
    /\ pc = "scc_paso3"
    /\ k < Len(ks.orden)
    /\ LET u == ks.orden[Len(ks.orden) - k]
       IN  ks' = IF u \notin ks.visit
                 THEN LET st == Dfs2(u, [visit |-> ks.visit, comp |-> <<>>,
                                         GT |-> ks.GT])
                      IN  [ks EXCEPT !.visit = st.visit, !.GT = st.GT,
                                     !.componentes = Append(@, st.comp)]
                 ELSE ks
    /\ k' = k + 1
    /\ UNCHANGED <<articulos, umbral, max_salientes, G, pc, origen, dj,
                   destino, camino, llamada, retorno, historia>>

\* mutant of KosarajuRetornar: the components are returned largest first
\* (a stable sort by length, descending)
KosarajuRetornarOrdenado ==
    /\ pc = "scc_paso3"
    /\ k = Len(ks.orden)
    /\ LET pares == [p \in 1..Len(ks.componentes) |->
                        <<ks.componentes[p], Len(ks.componentes[p])>>]
           orden == SortDesc(pares)
       IN  ks' = [ks EXCEPT !.componentes =
                                [p \in 1..Len(orden) |-> orden[p][1]]]
    /\ pc' = "scc_fin"
    /\ UNCHANGED <<articulos, umbral, max_salientes, G, origen, dj, destino,
                   camino, k, llamada, retorno, historia>>

\* mutant of KosarajuRetornar: after the loop a last component, left empty,
\* is appended to componentes
KosarajuRetornarConResto ==
    /\ pc = "scc_paso3"
    /\ k = Len(ks.orden)
    /\ ks' = [ks EXCEPT !.componentes = Append(@, <<>>)]
    /\ pc' = "scc_fin"
    /\ UNCHANGED <<articulos, umbral, max_salientes, G, origen, dj, destino,
                   camino, k, llamada, retorno, historia>>

\* kosaraju_scc returns componentes
KosarajuRetornar ==
    /\ pc = "scc_paso3"
    /\ k = Len(ks.orden)
    /\ pc' = "scc_fin"
    /\ UNCHANGED <<articulos, umbral, max_salientes, G, origen, dj, destino,
                   camino, ks, k, llamada, retorno, historia>>

\* buscar_por_titulo(G, f, lim) is called and returns
BuscarPorTituloLlamar ==
    /\ pc = "listo"
    /\ \E f \in Fragmentos, lim \in 0..MaxK :
        /\ llamada' = [op |-> "buscar_por_titulo", fragmento |-> f, k |-> lim]
        /\ retorno' = BuscarPorTitulo(G, f, lim)
    /\ pc' = "llamada_fin"
    /\ UNCHANGED <<articulos, umbral, max_salientes, G, origen, dj, destino,
                   camino, ks, k, historia>>

\* mutant of VecinosLlamar: vecinos reads self.adj[u], and the defaultdict
\* makes an empty list for a key it does not hold
VecinosLlamarDefaultdict ==
    /\ pc = "listo"
    /\ \E u \in Ids :
        /\ llamada' = [op |-> "vecinos", u |-> u]
        /\ retorno' = Vecinos(G, u)
        /\ G' = [G EXCEPT !.adj = DictSet(@, u, Vecinos(G, u))]
    /\ pc' = "llamada_fin"
    /\ UNCHANGED <<articulos, umbral, max_salientes, origen, dj, destino,
                   camino, ks, k, historia>>

\* G.vecinos(u) is called and returns: adj.get(u, []) adds no key to adj
VecinosLlamar ==
    /\ pc = "listo"
    /\ \E u \in Ids :
        /\ llamada' = [op |-> "vecinos", u |-> u]
        /\ retorno' = Vecinos(G, u)
    /\ pc' = "llamada_fin"
    /\ UNCHANGED <<articulos, umbral, max_salientes, G, origen, dj, destino,
                   camino, ks, k, historia>>

\* G.nodos_ids() is called and returns
NodosIdsLlamar ==
    /\ pc = "listo"
    /\ llamada' = [op |-> "nodos_ids"]
    /\ retorno' = NodosIds(G)
    /\ pc' = "llamada_fin"
    /\ UNCHANGED <<articulos, umbral, max_salientes, G, origen, dj, destino,
                   camino, ks, k, historia>>

\* the caller drops the results of a finished call; the graph stays
Descartar ==
    /\ pc \in {"dijkstra_fin", "dijkstra_error", "camino_fin", "scc_fin",
               "llamada_fin"}
    /\ pc' = "listo"
    /\ origen' = 0
    /\ dj' = SinDijkstra
    /\ destino' = 0
    /\ camino' = SinCamino
    /\ ks' = SinKosaraju
    /\ k' = 0
    /\ llamada' = SinLlamada
    /\ retorno' = <<>>
    /\ UNCHANGED <<articulos, umbral, max_salientes, G, historia>>

Next ==
    \/ Construir
    \/ DijkstraLlamar
    \/ DijkstraIterar
    \/ DijkstraRetornar
    \/ Reconstruir
    \/ KosarajuLlamar
    \/ KosarajuPaso1
    \/ KosarajuTransponer
    \/ KosarajuPaso3
    \/ KosarajuRetornar
    \/ BuscarPorTituloLlamar
    \/ VecinosLlamar
    \/ NodosIdsLlamar
    \/ Descartar

Spec == Init /\ [][Next]_vars

\* the inputs with umbral_similitud 0 or 0.35
InitJusto == Init /\ umbral \in {0, (7 * Den) \div 20}

\* a call that has begun goes on: the interpreter runs the next iteration
\* of the loop it is in, and the return that follows the loop
SpecJusto ==
    /\ InitJusto
    /\ [][Next]_vars
    /\ WF_vars(DijkstraIterar)
    /\ WF_vars(DijkstraRetornar)
    /\ WF_vars(KosarajuPaso1)
    /\ WF_vars(KosarajuTransponer)
    /\ WF_vars(KosarajuPaso3)
    /\ WF_vars(KosarajuRetornar)

(***************************************************************************)
(* The worked example: construir_grafo on the three articles, in any       *)
(* order, with umbral_similitud 0.2 and max_salientes_por_nodo 5, then any *)
(* sequence of queries.                                                    *)
(***************************************************************************)
InitEsc ==
    /\ articulos \in {l \in [1..3 -> {EscA, EscB, EscC}] :
                         Range(l) = {EscA, EscB, EscC}}
    /\ umbral = Den \div 5
    /\ max_salientes = 5
    /\ G = GrafoVacio
    /\ pc = "inicio"
    /\ origen = 0
    /\ dj = SinDijkstra
    /\ destino = 0
    /\ camino = SinCamino
    /\ ks = SinKosaraju
    /\ k = 0
    /\ llamada = SinLlamada
    /\ retorno = <<>>
    /\ historia = <<>>

SpecEsc == InitEsc /\ [][Next]_vars

(***************************************************************************)
(* similitud_articulos and construir_grafo on pairs of records of which    *)
(* any fields may be missing.                                              *)
(***************************************************************************)
InitSim ==
    /\ articulos \in [1..2 -> Registros]
    /\ umbral \in {-1, (7 * Den) \div 20}
    /\ max_salientes = MaxK
    /\ G = GrafoVacio
    /\ pc = "inicio"
    /\ origen = 0
    /\ dj = SinDijkstra
    /\ destino = 0
    /\ camino = SinCamino
    /\ ks = SinKosaraju
    /\ k = 0
    /\ llamada = SinLlamada
    /\ retorno = <<>>
    /\ historia = <<>>

\* similitud_articulos(a, b) is called on two records of the list and returns
SimilitudLlamar ==
    /\ pc = "inicio"
    /\ \E i, j \in 1..Len(articulos) :
        /\ llamada' = [op |-> "similitud_articulos", a |-> articulos[i],
                       b |-> articulos[j]]
        /\ retorno' = SimilitudArticulos(articulos[i], articulos[j])
    /\ pc' = "similitud_fin"
    /\ UNCHANGED <<articulos, umbral, max_salientes, G, origen, dj, destino,
                   camino, ks, k, historia>>

NextSim ==
    \/ Construir
    \/ SimilitudLlamar

SpecSim == InitSim /\ [][NextSim]_vars

(***************************************************************************)
(* A GrafoDirigido assembled by hand: any calls of agregar_nodo and        *)
(* agregar_arista, at most MaxOps of them, with queries in between.        *)
(***************************************************************************)
\* most calls of agregar_nodo and agregar_arista
MaxOps == 3

\* the ids passed to agregar_nodo, and the ids passed to agregar_arista as
\* source or target: one of them is never added as a node
IdsNodo == {0, 1}
IdsArista == {0, 1, 2}

\* the metadata passed to agregar_nodo
Datos == {NodoData(ArtC), NodoData(ArtD)}

\* the weights passed to agregar_arista: 0.0 and 1.0
Pesos == {0, Den}

InitGrafo ==
    /\ articulos = <<>>
    /\ umbral = 0
    /\ max_salientes = 0
    /\ G = GrafoVacio
    /\ pc = "listo"
    /\ origen = 0
    /\ dj = SinDijkstra
    /\ destino = 0
    /\ camino = SinCamino
    /\ ks = SinKosaraju
    /\ k = 0
    /\ llamada = SinLlamada
    /\ retorno = <<>>
    /\ historia = <<>>

\* G.agregar_nodo(node_id, data)
AgregarNodoLlamar ==
    /\ pc = "listo"
    /\ Len(historia) < MaxOps
    /\ \E node_id \in IdsNodo, data \in Datos :
        /\ G' = AgregarNodo(G, node_id, data)
        /\ historia' = Append(historia, [op |-> "agregar_nodo",
                                         node_id |-> node_id, data |-> data])
    /\ UNCHANGED <<articulos, umbral, max_salientes, pc, origen, dj, destino,
                   camino, ks, k, llamada, retorno>>

\* G.agregar_arista(u, v, peso)
AgregarAristaLlamar ==
    /\ pc = "listo"
    /\ Len(historia) < MaxOps
    /\ \E u \in IdsArista, v \in IdsArista, peso \in Pesos :
        /\ G' = AgregarArista(G, u, v, peso)
        /\ historia' = Append(historia, [op |-> "agregar_arista", u |-> u,
                                         v |-> v, peso |-> peso])
    /\ UNCHANGED <<articulos, umbral, max_salientes, pc, origen, dj, destino,
                   camino, ks, k, llamada, retorno>>

NextGrafo ==
    \/ AgregarNodoLlamar
    \/ AgregarAristaLlamar
    \/ KosarajuLlamar
    \/ KosarajuPaso1
    \/ KosarajuTransponer
    \/ KosarajuPaso3
    \/ KosarajuRetornar
    \/ VecinosLlamar
    \/ NodosIdsLlamar
    \/ Descartar

SpecGrafo == InitGrafo /\ [][NextGrafo]_vars

(***************************************************************************)
(* _split_authors and _split_keywords on raw strings.                      *)
(***************************************************************************)
\* longest raw string
MaxLen == 3

\* a letter, two signs that are no separators (one of them a combining
\* mark), the separators ";" and "|", and the blank
CaracteresCrudos == {"s", "#", "comb_acute", ";", "|", " "}

Cadenas == SeqsUpTo(CaracteresCrudos, MaxLen)

\* one record whose authors and keywords cells hold the raw string
InitTexto ==
    /\ articulos \in {<<[authors |-> s, keywords |-> s]>> : s \in Cadenas}
    /\ umbral = 0
    /\ max_salientes = 0
    /\ G = GrafoVacio
    /\ pc = "inicio"
    /\ origen = 0
    /\ dj = SinDijkstra
    /\ destino = 0
    /\ camino = SinCamino
    /\ ks = SinKosaraju
    /\ k = 0
    /\ llamada = SinLlamada
    /\ retorno = <<>>
    /\ historia = <<>>

\* _split_authors(s) is called and returns
SplitAuthorsLlamar ==
    /\ pc = "inicio"
    /\ llamada' = [op |-> "_split_authors", s |-> articulos[1].authors]
    /\ retorno' = SplitAuthors(articulos[1].authors)
    /\ pc' = "split_fin"
    /\ UNCHANGED <<articulos, umbral, max_salientes, G, origen, dj, destino,
                   camino, ks, k, historia>>

\* _split_keywords(s) is called and returns
SplitKeywordsLlamar ==
    /\ pc = "inicio"
    /\ llamada' = [op |-> "_split_keywords", s |-> articulos[1].keywords]
    /\ retorno' = SplitKeywords(articulos[1].keywords)
    /\ pc' = "split_fin"
    /\ UNCHANGED <<articulos, umbral, max_salientes, G, origen, dj, destino,
                   camino, ks, k, historia>>

NextTexto ==
    \/ SplitAuthorsLlamar
    \/ SplitKeywordsLlamar

SpecTexto == InitTexto /\ [][NextTexto]_vars

(***************************************************************************)
(* Properties.                                                             *)
(***************************************************************************)
Nodos == Range(NodosIds(G))

RECURSIVE Aplanar(_)
Aplanar(ss) == IF ss = <<>> THEN <<>> ELSE Head(ss) \o Aplanar(Tail(ss))

\* the targets of the edges leaving u
Destinos(u) == {e[1] : e \in Range(Vecinos(G, u))}

\* the nodes some directed path (of any length, 0 included) leads to from S
RECURSIVE Cierre(_)
Cierre(S) ==
    LET S2 == S \cup UNION {Destinos(u) : u \in S}
    IN  IF S2 = S THEN S ELSE Cierre(S2)

Alcanza(u, v) == v \in Cierre({u})

\* u and v lie in one returned component
MismaComponente(u, v) ==
    \E i \in 1..Len(ks.componentes) :
        u \in Range(ks.componentes[i]) /\ v \in Range(ks.componentes[i])

\* C1: when kosaraju_scc returns, the components hold every node id of the
\* graph exactly once between them (none missing, none twice, nothing that
\* is no node), and no component is empty.
C1_SccParticion ==
    pc = "scc_fin" =>
        LET todos == Aplanar(ks.componentes)
        IN  /\ Range(todos) = Nodos
            /\ Len(todos) = Cardinality(Nodos)
            /\ \A i \in 1..Len(ks.componentes) : ks.componentes[i] # <<>>

\* a graph of three or more nodes split into a component of several nodes
\* and at least one more component
C1_Witness ==
    /\ pc = "scc_fin"
    /\ Len(ks.componentes) >= 2
    /\ \E i \in 1..Len(ks.componentes) : Len(ks.componentes[i]) >= 2

\* C2: when kosaraju_scc returns, two nodes share a component exactly when
\* each is reachable from the other along directed edges.
C2_SccMutuamenteAlcanzables ==
    pc = "scc_fin" =>
        \A u \in Nodos : \A v \in Nodos :
            MismaComponente(u, v) <=> (Alcanza(u, v) /\ Alcanza(v, u))

\* a returned result on a graph with a one-way edge between two components
\* and a component of several nodes
C2_Witness ==
    /\ pc = "scc_fin"
    /\ \E u \in Nodos : \E v \in Destinos(u) :
           ~Alcanza(v, u) /\ ~MismaComponente(u, v)
    /\ \E u \in Nodos : \E v \in Nodos : u # v /\ MismaComponente(u, v)

\* the least of a set of floats, any of which may be inf
FloatMin(S) == IF S \subseteq {Inf} THEN Inf ELSE
    CHOOSE x \in S \ {Inf} : \A y \in S \ {Inf} : x <= y

\* the edges of the graph, as <<u, v, w>>
Aristas ==
    UNION {{<<u, e[1], e[2]>> : e \in Range(Vecinos(G, u))} : u \in Nodos}

\* least weights of the paths of at most n edges from s (Bellman-Ford)
RECURSIVE PesoMinimo(_, _)
PesoMinimo(s, n) ==
    IF n = 0 THEN [v \in Nodos |-> IF v = s THEN 0 ELSE Inf]
    ELSE LET d == PesoMinimo(s, n - 1)
         IN  [v \in Nodos |->
                FloatMin({d[v]} \cup
                         {d[e[1]] + e[3] :
                            e \in {f \in Aristas : f[2] = v /\ d[f[1]] # Inf}})]

\* C3: when dijkstra(G, s) returns for a node s, dist[s] = 0, dist[v] is
\* the least total weight of a directed path from s to v for every node v,
\* and dist[v] is inf exactly when no directed path leads from s to v.
C3_DijkstraMinimo ==
    (pc = "dijkstra_fin" /\ origen \in Nodos) =>
        /\ DOMAIN dj.dist = Nodos
        /\ dj.dist[origen] = 0
        /\ \A v \in Nodos :
            /\ dj.dist[v] = PesoMinimo(origen, Cardinality(Nodos))[v]
            /\ dj.dist[v] = Inf <=> ~Alcanza(origen, v)

\* a returned result with a node out of reach and a node whose shortest
\* path has more than one edge
C3_Witness ==
    /\ pc = "dijkstra_fin"
    /\ origen \in Nodos
    /\ \E v \in Nodos : dj.dist[v] = Inf
    /\ \E v \in Nodos : dj.prev[v] # None /\ dj.prev[v] # <<origen>>

\* the weight of the edge u -> v
PesoArista(u, v) == (CHOOSE e \in Aristas : e[1] = u /\ e[2] = v)[3]

RECURSIVE PesoCamino(_)
PesoCamino(c) ==
    IF Len(c) < 2 THEN 0 ELSE PesoArista(c[1], c[2]) + PesoCamino(Tail(c))

\* C4: for a node s, the result of dijkstra(G, s) and a node t with finite
\* dist[t], reconstruir_camino(prev, t) starts with s, ends with t, follows
\* an edge of G at every step, and its edge weights sum to dist[t].
C4_CaminoCorrecto ==
    (/\ pc = "camino_fin"
     /\ origen \in Nodos
     /\ destino \in Nodos
     /\ dj.dist[destino] # Inf) =>
        LET c == camino.camino
        IN  /\ ~camino.error
            /\ Len(c) >= 1
            /\ c[1] = origen
            /\ c[Len(c)] = destino
            /\ \A i \in 1..Len(c) - 1 : c[i + 1] \in Destinos(c[i])
            /\ PesoCamino(c) = dj.dist[destino]

\* a reconstructed path of two or more edges and positive weight
C4_Witness ==
    /\ pc = "camino_fin"
    /\ origen \in Nodos
    /\ destino \in Nodos
    /\ dj.dist[destino] # Inf
    /\ dj.dist[destino] > 0
    /\ Len(camino.camino) >= 3

\* a dijkstra call with a source that is no node is running or has ended
FuenteInexistente ==
    pc \in {"dijkstra", "dijkstra_fin", "dijkstra_error"} /\ origen \notin Nodos

\* C5 as claimed: dijkstra never returns a (dist, prev) result for a source
\* id that is no node of the graph.
C5_Original == ~(pc = "dijkstra_fin" /\ origen \notin Nodos)

\* C5 as amended: dijkstra with a source that is no node raises nothing and
\* returns dist with 0 for the source and inf for every node, and prev with
\* None for every node and no entry for the source.
C5_FuenteInexistenteRetorna ==
    FuenteInexistente =>
        /\ pc # "dijkstra_error"
        /\ ~dj.error
        /\ pc = "dijkstra_fin" =>
            /\ dj.dist = [u \in Nodos \cup {origen} |->
                            IF u = origen THEN 0 ELSE Inf]
            /\ dj.prev = [u \in Nodos |-> None]

\* dijkstra has returned for a source that is no node of a graph with nodes
C5_Witness ==
    /\ pc = "dijkstra_fin"
    /\ origen \notin Nodos
    /\ Nodos # {}

\* C6 as claimed: reconstruir_camino(prev, t) is the one-element list [t]
\* only when t is the source.
C6_Original ==
    (/\ pc = "camino_fin"
     /\ origen \in Nodos
     /\ destino \in Nodos
     /\ camino.camino = <<destino>>) => destino = origen

\* C6 as amended: for nodes s and t, reconstruir_camino(prev, t) raises
\* nothing, is never empty, and is the one-element list [t] exactly when
\* t = s or t is out of reach of s (dist[t] is inf).
C6_CaminoUnitario ==
    (pc = "camino_fin" /\ origen \in Nodos /\ destino \in Nodos) =>
        /\ ~camino.error
        /\ camino.camino # <<>>
        /\ camino.camino = <<destino>> <=>
               (destino = origen \/ dj.dist[destino] = Inf)

\* the path to a node out of reach of the source has been reconstructed
C6_Witness ==
    /\ pc = "camino_fin"
    /\ origen \in Nodos
    /\ destino \in Nodos
    /\ destino # origen
    /\ dj.dist[destino] = Inf
    /\ camino.camino = <<destino>>

\* C7 as claimed: when construir_grafo has returned, no node has more than
\* max(max_salientes_por_nodo, 0) outgoing edges.
C7_Original ==
    pc = "listo" =>
        \A u \in Nodos :
            Len(Vecinos(G, u)) <= (IF max_salientes > 0 THEN max_salientes
                                   ELSE 0)

\* similitud_articulos of the articles behind nodes i and j
Sim(i, j) == SimilitudArticulos(articulos[i + 1], articulos[j + 1])

\* the nodes j # i whose score with i reaches the threshold
Aptos(i) == {j \in Nodos \ {i} : Sim(i, j) >= umbral}

\* C8: when construir_grafo has returned, an edge i -> j exists only if
\* similitud_articulos(articles[i], articles[j]) >= umbral, for every
\* threshold value.
C8_AristaSoloSobreUmbral ==
    pc = "listo" =>
        \A i \in DOMAIN G.adj : \A j \in Destinos(i) : Sim(i, j) >= umbral

\* a built graph with an edge, under a positive threshold that some pair of
\* articles could not reach although max_salientes left room for them
C8_Witness ==
    /\ pc = "listo"
    /\ umbral > 0
    /\ \E i \in Nodos :
        /\ Destinos(i) # {}
        /\ Len(Vecinos(G, i)) < max_salientes
        /\ \E j \in Nodos \ {i} : Sim(i, j) < umbral

\* j1 comes before j2 in the ranking of i: higher score, or the same score
\* and a lower id
Antes(i, j1, j2) ==
    Sim(i, j1) > Sim(i, j2) \/ (Sim(i, j1) = Sim(i, j2) /\ j1 < j2)

\* C9: when construir_grafo has returned with max_salientes >= 0, the
\* adjacency list of every node i is the first min(max_salientes, c) of its
\* c candidates (j # i with score >= umbral) ranked by descending score,
\* ties by ascending j: it has that length, holds candidates only, is in
\* ranking order, and every candidate left out ranks after every one kept.
C9_TopKEstable ==
    (pc = "listo" /\ max_salientes >= 0) =>
        \A i \in Nodos :
            LET vs == Vecinos(G, i)
                c == Cardinality(Aptos(i))
            IN  /\ Len(vs) = (IF max_salientes < c THEN max_salientes ELSE c)
                /\ Destinos(i) \subseteq Aptos(i)
                /\ \A p \in 1..Len(vs) : \A q \in 1..Len(vs) :
                       p < q => Antes(i, vs[p][1], vs[q][1])
                /\ \A j \in Aptos(i) \ Destinos(i) : \A p \in 1..Len(vs) :
                       Antes(i, vs[p][1], j)

\* a node whose last kept edge ties with a candidate that was cut off
C9_Witness ==
    /\ pc = "listo"
    /\ max_salientes >= 1
    /\ \E i \in Nodos : \E j \in Aptos(i) \ Destinos(i) :
           Sim(i, j) = Sim(i, Vecinos(G, i)[Len(Vecinos(G, i))][1])

\* C10: when construir_grafo has returned, every edge i -> j weighs exactly
\* 1 - similitud_articulos(articles[i], articles[j]), and that weight lies
\* in [0, 1], for every threshold value.
C10_PesoUnoMenosSim ==
    pc = "listo" =>
        \A i \in DOMAIN G.adj : \A e \in Range(G.adj[i]) :
            /\ e[2] = Den - Sim(i, e[1])
            /\ 0 <= e[2]
            /\ e[2] <= Den

\* a graph built under a threshold <= 0 with an edge of weight 1 (score 0)
\* and an edge of weight 0 (score 1)
C10_Witness ==
    /\ pc = "listo"
    /\ umbral <= 0
    /\ \E e \in Aristas : e[3] = Den
    /\ \E e \in Aristas : e[3] = 0

\* C11: when construir_grafo has returned, the node ids are exactly
\* 0 .. n-1 for the n articles of the list, every edge leaves a node and
\* enters a node, and no edge enters the node it leaves.
C11_NodosYAristasValidos ==
    pc = "listo" =>
        /\ Nodos = 0..(Len(articulos) - 1)
        /\ DOMAIN G.nodos = Nodos
        /\ Len(NodosIds(G)) = Len(articulos)
        /\ DOMAIN G.adj \subseteq Nodos
        /\ \A u \in DOMAIN G.adj : \A e \in Range(G.adj[u]) :
               e[1] \in Nodos /\ e[1] # u

\* a graph with edges in which a node's score with itself reaches the
\* threshold and the node has room for one more edge
C11_Witness ==
    /\ pc = "listo"
    /\ \E i \in Nodos :
        /\ Destinos(i) # {}
        /\ Len(Vecinos(G, i)) < max_salientes
        /\ Sim(i, i) >= umbral

\* C12: when construir_grafo has returned, no adjacency list holds the same
\* target twice: there is at most one edge per ordered pair (i, j).
C12_SinAristasRepetidas ==
    pc = "listo" =>
        \A u \in DOMAIN G.adj : \A p, q \in 1..Len(G.adj[u]) :
            G.adj[u][p][1] = G.adj[u][q][1] => p = q

\* two nodes with an edge in each direction, one of them with a second edge
C12_Witness ==
    /\ pc = "listo"
    /\ \E u, v \in Nodos :
        /\ v \in Destinos(u)
        /\ u \in Destinos(v)
        /\ Len(Vecinos(G, u)) >= 2

\* C13: similitud_articulos(a, b) returns what similitud_articulos(b, a)
\* returns, for all records a and b.
C13_SimilitudSimetrica ==
    pc = "similitud_fin" =>
        retorno = SimilitudArticulos(llamada.b, llamada.a)

\* a call on two different records that share some but not all of a field
C13_Witness ==
    /\ pc = "similitud_fin"
    /\ llamada.a # llamada.b
    /\ retorno > 0
    /\ retorno < Den

\* C14: similitud_articulos returns a score in [0, 1] for all records,
\* those with empty or missing fields included.
C14_SimilitudAcotada ==
    pc = "similitud_fin" => retorno >= 0 /\ retorno <= Den

\* a call on two records, one with fewer fields than the other, that scores
\* 1
C14_Witness ==
    /\ pc = "similitud_fin"
    /\ DOMAIN llamada.a # DOMAIN llamada.b
    /\ retorno = Den

\* the set a record's field stands for: the tokens of the title, the
\* authors, the keywords
Conjunto(a, campo) ==
    CASE campo = "title" -> Tokens(NormText(Get(a, "title")))
      [] campo = "authors" -> Range(SplitAuthors(Get(a, "authors")))
      [] campo = "keywords" -> Range(SplitKeywords(Get(a, "keywords")))

\* J(X, Y) = JNum / JDen as a fraction: |X & Y| / |X | Y|, and 0 / 1 for two
\* empty sets
JNum(X, Y) == Cardinality(X \cap Y)
JDen(X, Y) == IF X \cup Y = {} THEN 1 ELSE Cardinality(X \cup Y)

\* C15: similitud_articulos(a, b) is 0.5 J(title tokens) + 0.3 J(author
\* sets) + 0.2 J(keyword sets) with J(X, Y) = |X & Y| / |X | Y| and
\* J({}, {}) = 0 (the equation is multiplied by 10 and by the three
\* denominators); two records whose three fields are all empty score 0.
C15_SumaPonderada ==
    pc = "similitud_fin" =>
        LET a == llamada.a
            b == llamada.b
            n1 == JNum(Conjunto(a, "title"), Conjunto(b, "title"))
            d1 == JDen(Conjunto(a, "title"), Conjunto(b, "title"))
            n2 == JNum(Conjunto(a, "authors"), Conjunto(b, "authors"))
            d2 == JDen(Conjunto(a, "authors"), Conjunto(b, "authors"))
            n3 == JNum(Conjunto(a, "keywords"), Conjunto(b, "keywords"))
            d3 == JDen(Conjunto(a, "keywords"), Conjunto(b, "keywords"))
        IN  /\ 10 * retorno * d1 * d2 * d3
                   = Den * (5 * n1 * d2 * d3 + 3 * n2 * d1 * d3
                                + 2 * n3 * d1 * d2)
            /\ (\A r \in {a, b} : \A c \in {"title", "authors", "keywords"} :
                    Get(r, c) = <<>>)
                   => retorno = 0

\* a call on two records whose title, authors and keywords are all empty
\* or missing, one of them with an empty keywords cell
C15_Witness ==
    /\ pc = "similitud_fin"
    /\ \A r \in {llamada.a, llamada.b} :
           \A c \in {"title", "authors", "keywords"} : Get(r, c) = <<>>
    /\ "keywords" \in DOMAIN llamada.a
    /\ retorno = 0

\* C16: once construir_grafo has returned, no step of dijkstra,
\* reconstruir_camino, kosaraju_scc, buscar_por_titulo, vecinos or nodos_ids
\* changes the graph: the node ids, every node's metadata, the set of keys
\* of the adjacency map and every adjacency list stay as they are.
C16_ConsultasNoMutan ==
    [][pc # "inicio" =>
           /\ NodosIds(G') = NodosIds(G)
           /\ G'.nodos = G.nodos
           /\ DOMAIN G'.adj = DOMAIN G.adj
           /\ \A u \in DOMAIN G.adj : G'.adj[u] = G.adj[u]]_vars

\* vecinos has returned [] for a node without outgoing edges and the
\* adjacency map still has no key for it
C16_Witness ==
    /\ pc = "llamada_fin"
    /\ llamada.op = "vecinos"
    /\ llamada.u \in Nodos
    /\ llamada.u \notin DOMAIN G.adj
    /\ retorno = <<>>

\* C17: construir_grafo on the empty list returns a graph with no node, no
\* metadata and no adjacency entry, and kosaraju_scc on that graph returns
\* the empty list.
C17_GrafoVacio ==
    articulos = <<>> =>
        /\ pc # "inicio" =>
               /\ NodosIds(G) = <<>>
               /\ DOMAIN G.nodos = {}
               /\ DOMAIN G.adj = {}
        /\ pc = "scc_fin" => ks.componentes = <<>>

\* kosaraju_scc has returned on the graph built from no article
C17_Witness ==
    /\ articulos = <<>>
    /\ pc = "scc_fin"
    /\ NodosIds(G) = <<>>

\* score is the weighted sum of the Jaccard terms of those fields that both
\* a and b have, a field that either lacks adding nothing (the equation is
\* multiplied by 10 and by the three denominators)
SinAporteDeAusentes(a, b, score) ==
    LET Falta(c) == c \notin DOMAIN a \/ c \notin DOMAIN b
        N(c) == IF Falta(c) THEN 0
                ELSE JNum(Conjunto(a, c), Conjunto(b, c))
        D(c) == JDen(Conjunto(a, c), Conjunto(b, c))
    IN  10 * score * D("title") * D("authors") * D("keywords")
            = Den * (5 * N("title") * D("authors") * D("keywords")
                         + 3 * N("authors") * D("title") * D("keywords")
                         + 2 * N("keywords") * D("title") * D("authors"))

\* C18: for records that lack any of the six fields, a node of the graph
\* construir_grafo returns has all six fields and the empty string for each
\* field its record lacks, and a title, authors or keywords field that a
\* record lacks adds nothing to a score of that record, be it returned by
\* similitud_articulos or behind the weight of an edge.
C18_CamposAusentes ==
    /\ pc = "listo" =>
           /\ \A i \in Nodos :
                  /\ DOMAIN G.nodos[i] = Campos
                  /\ \A c \in Campos \ DOMAIN articulos[i + 1] :
                         G.nodos[i][c] = <<>>
           /\ \A u \in DOMAIN G.adj : \A e \in Range(G.adj[u]) :
                  SinAporteDeAusentes(articulos[u + 1], articulos[e[1] + 1],
                                      Den - e[2])
    /\ pc = "similitud_fin" =>
           SinAporteDeAusentes(llamada.a, llamada.b, retorno)

\* a graph built from a record without title and doi and a record with a
\* title, with an edge from the first to the second
C18_Witness ==
    /\ pc = "listo"
    /\ Len(articulos) = 2
    /\ "title" \notin DOMAIN articulos[1]
    /\ "doi" \notin DOMAIN articulos[1]
    /\ "title" \in DOMAIN articulos[2]
    /\ 1 \in Destinos(0)
    /\ G.nodos[0]["title"] = <<>>

\* C19 as claimed: buscar_por_titulo(G, fragment, k) returns at most k hits
\* for every k >= 0, 0 included.
C19_Original ==
    (pc = "llamada_fin" /\ llamada.op = "buscar_por_titulo") =>
        Len(retorno) <= llamada.k

\* sub is s[i:j] for some i and j
EsSubcadena(sub, s) ==
    \E i \in 0..Len(s) : \E j \in i..Len(s) : SubSeq(s, i + 1, j) = sub

\* the nodes whose normalised title contains the normalised fragment f
Coincidentes(f) ==
    {i \in Nodos :
        EsSubcadena(NormText(f), NormText(G.nodos[i]["title"]))}

\* C20: for a fragment whose normalisation is not empty and k >= 1,
\* buscar_por_titulo returns the first min(k, m) of the m nodes whose
\* normalised title contains the normalised fragment, by ascending id, each
\* with the title as the node holds it.
C20_PrimerosCoincidentes ==
    (/\ pc = "llamada_fin"
     /\ llamada.op = "buscar_por_titulo"
     /\ NormText(llamada.fragmento) # <<>>
     /\ llamada.k >= 1) =>
        LET M == Coincidentes(llamada.fragmento)
            m == Cardinality(M)
        IN  /\ Len(retorno) = (IF llamada.k < m THEN llamada.k ELSE m)
            /\ \A p \in 1..Len(retorno) :
                   /\ retorno[p][1] \in M
                   /\ Cardinality({i \in M : i < retorno[p][1]}) = p - 1
                   /\ retorno[p][2] = G.nodos[retorno[p][1]]["title"]

\* a search that stopped at k hits with more nodes matching, whose first
\* hit is not node 0 and whose fragment differs from its normalisation
C20_Witness ==
    /\ pc = "llamada_fin"
    /\ llamada.op = "buscar_por_titulo"
    /\ llamada.k >= 1
    /\ NormText(llamada.fragmento) # llamada.fragmento
    /\ Len(retorno) = llamada.k
    /\ Cardinality(Coincidentes(llamada.fragmento)) > llamada.k
    /\ retorno[1][1] # 0

\* the node of an article of the worked example
NodoDe(art) == CHOOSE i \in 0..(Len(articulos) - 1) : articulos[i + 1] = art

\* C21: in the graph built from the articles A, B, C of the worked example
\* with threshold 0.2 and at most 5 outgoing edges, A -> B exists with a
\* weight < 1 and neither A -> C nor B -> C exists; dijkstra from A gives B
\* a finite distance and C infinity; C is a component of its own, and A and
\* B share a component exactly when A -> B and B -> A both exist.
C21_Escenario ==
    LET a == NodoDe(EscA)
        b == NodoDe(EscB)
        c == NodoDe(EscC)
    IN  /\ pc # "inicio" =>
               /\ \E e \in Range(Vecinos(G, a)) : e[1] = b /\ e[2] < Den
               /\ c \notin Destinos(a)
               /\ c \notin Destinos(b)
        /\ (pc = "dijkstra_fin" /\ origen = a) =>
               dj.dist[b] # Inf /\ dj.dist[c] = Inf
        /\ pc = "scc_fin" =>
               /\ \E i \in 1..Len(ks.componentes) : ks.componentes[i] = <<c>>
               /\ MismaComponente(a, b)
                      <=> (b \in Destinos(a) /\ a \in Destinos(b))

\* kosaraju_scc has returned on the example given as A, B, C, with A and B
\* in one component
C21_Witness ==
    /\ pc = "scc_fin"
    /\ articulos = <<EscA, EscB, EscC>>
    /\ MismaComponente(0, 1)
    /\ ~MismaComponente(0, 2)

\* the place of node u in orden, the pass 1 finish order (1 = first to
\* finish)
PosFin(u) == CHOOSE p \in 1..Len(ks.orden) : ks.orden[p] = u

\* C22: when kosaraju_scc returns, the first element of each component is
\* its root, the node of the component that finished last in pass 1; the
\* roots of successive components finished pass 1 in strictly decreasing
\* order, and the root of the first component is the node that finished
\* last of all.
C22_OrdenDeRaices ==
    pc = "scc_fin" =>
        LET comps == ks.componentes
        IN  /\ \A p \in 1..Len(comps) : \A x \in Range(comps[p]) :
                   PosFin(x) <= PosFin(comps[p][1])
            /\ \A p \in 1..(Len(comps) - 1) :
                   PosFin(comps[p][1]) > PosFin(comps[p + 1][1])
            /\ comps # <<>> => comps[1][1] = ks.orden[Len(ks.orden)]

\* a result that is sorted neither by size nor by id: a component comes
\* before a larger one, and a root before a root of smaller id
C22_Witness ==
    /\ pc = "scc_fin"
    /\ \E p \in 1..(Len(ks.componentes) - 1) :
           Len(ks.componentes[p]) < Len(ks.componentes[p + 1])
    /\ \E p \in 1..(Len(ks.componentes) - 1) :
           ks.componentes[p][1] > ks.componentes[p + 1][1]

\* C23: throughout a run of dijkstra the distances at which nodes are
\* settled never decrease, the first node settled is the source at
\* distance 0, and at return dist[source] is 0.
C23_AsentadosNoDecrecen ==
    pc \in {"dijkstra", "dijkstra_fin"} =>
        LET a == dj.asentados
        IN  /\ \A i \in 1..Len(a) : \A j \in i..Len(a) : a[i][1] <= a[j][1]
            /\ a # <<>> => a[1] = <<0, origen>>
            /\ pc = "dijkstra_fin" => a # <<>> /\ dj.dist[origen] = 0

\* a finished run that settled three nodes or more, the last two at
\* different distances
C23_Witness ==
    /\ pc = "dijkstra_fin"
    /\ Len(dj.asentados) >= 3
    /\ dj.asentados[2][1] < dj.asentados[3][1]

\* C27: throughout a run of dijkstra no node is settled (has its outgoing
\* edges relaxed) twice, the recorded distance of a settled node is still
\* the distance it was settled at, and every queue entry left for a settled
\* node is stale: its distance is greater than the recorded one.
C27_RelajadoUnaVez ==
    pc \in {"dijkstra", "dijkstra_fin"} =>
        LET a == dj.asentados
        IN  /\ \A i, j \in 1..Len(a) : a[i][2] = a[j][2] => i = j
            /\ \A i \in 1..Len(a) : dj.dist[a[i][2]] = a[i][1]
            /\ \A e \in dj.pq : \A i \in 1..Len(a) :
                   e[2] = a[i][2] => e[1] > dj.dist[e[2]]

\* a run in which the queue still holds an entry for a node already
\* settled
C27_Witness ==
    /\ pc = "dijkstra"
    /\ \E e \in dj.pq : \E i \in 1..Len(dj.asentados) :
           e[2] = dj.asentados[i][2]

\* C24: every call of dijkstra on a built graph comes to its return with an
\* empty queue, and every call of kosaraju_scc comes to its return, both
\* passes done.
C24_Terminan ==
    /\ (pc = "dijkstra") ~> (pc = "dijkstra_fin" /\ dj.pq = {})
    /\ (pc \in {"scc_paso1", "scc_paso3"})
           ~> (pc = "scc_fin" /\ k = Len(ks.orden)
                   /\ Len(ks.orden) = Len(NodosIds(G)))

\* dijkstra has returned from a node that lies on a cycle and has an
\* outgoing edge of weight 0
C24_Witness ==
    /\ pc = "dijkstra_fin"
    /\ origen \in Nodos
    /\ \E v \in Nodos \ {origen} : Alcanza(origen, v) /\ Alcanza(v, origen)
    /\ \E e \in Range(Vecinos(G, origen)) : e[2] = 0

\* the ids passed to agregar_nodo in the calls h, each once, in the order
\* of their first call
RECURSIVE IdsEnOrden(_)
IdsEnOrden(h) ==
    IF h = <<>> THEN <<>>
    ELSE LET r == IdsEnOrden(SubSeq(h, 1, Len(h) - 1))
             c == h[Len(h)]
         IN  IF c.op = "agregar_nodo" /\ c.node_id \notin Range(r)
             THEN Append(r, c.node_id)
             ELSE r

\* the metadata of the last call agregar_nodo(id, ...) of h
UltimoDato(h, id) ==
    h[SetMax({i \in 1..Len(h) :
                 h[i].op = "agregar_nodo" /\ h[i].node_id = id})].data

\* the pairs (v, peso) of the calls agregar_arista(u, v, peso) of h, in call
\* order
ParesDe(h, u) ==
    LET sel == SelectSeq(h, LAMBDA c : c.op = "agregar_arista" /\ c.u = u)
    IN  [i \in 1..Len(sel) |-> <<sel[i].v, sel[i].peso>>]

\* C25: after any calls of agregar_nodo and agregar_arista, nodos_ids() is
\* the list of the distinct ids added, in the order of their first call,
\* each node holds the metadata of its last call, and vecinos(u) is the
\* sequence of the pairs (v, peso) given to agregar_arista(u, ...), in call
\* order, repeated pairs and ids that are no nodes included, and [] when
\* there was none.
C25_GrafoSegunLlamadas ==
    /\ NodosIds(G) = IdsEnOrden(historia)
    /\ DOMAIN G.nodos = Range(IdsEnOrden(historia))
    /\ \A id \in DOMAIN G.nodos : G.nodos[id] = UltimoDato(historia, id)
    /\ \A u \in IdsArista : Vecinos(G, u) = ParesDe(historia, u)
    /\ (pc = "llamada_fin" /\ llamada.op = "nodos_ids") =>
           retorno = IdsEnOrden(historia)
    /\ (pc = "llamada_fin" /\ llamada.op = "vecinos") =>
           retorno = ParesDe(historia, llamada.u)

\* nodos_ids() has returned [1, 0] after node 1, node 0 and node 1 again
\* with other metadata were added
C25_Witness ==
    /\ pc = "llamada_fin"
    /\ llamada.op = "nodos_ids"
    /\ retorno = <<1, 0>>
    /\ Len(historia) = 3
    /\ historia[3].op = "agregar_nodo"
    /\ historia[3].node_id = 1
    /\ G.nodos[1] # historia[1].data

\* C30 as claimed: when kosaraju_scc returns on a graph assembled by hand,
\* edges from or to ids that are no nodes included, every id of every
\* component is a node and the components hold every node exactly once.
C30_Original ==
    pc = "scc_fin" =>
        LET todos == Aplanar(ks.componentes)
        IN  /\ Range(todos) \subseteq Nodos
            /\ Range(todos) = Nodos
            /\ Len(todos) = Cardinality(Nodos)

\* C26 as claimed: the list _split_authors or _split_keywords returns holds
\* no empty string, whatever the raw string.
C26_Original ==
    pc = "split_fin" => \A i \in 1..Len(retorno) : retorno[i] # <<>>

\* C28: in the graph construir_grafo returns, two edges i->j and j->i carry
\* the same weight; and when max_salientes_por_nodo >= n - 1 the edge
\* relation is symmetric.
C28_Reciprocas ==
    pc # "inicio" =>
        /\ \A e \in Aristas : \A f \in Aristas :
               (e[1] = f[2] /\ e[2] = f[1]) => e[3] = f[3]
        /\ max_salientes >= Len(articulos) - 1 =>
               \A i \in Nodos : \A j \in Nodos :
                   j \in Destinos(i) <=> i \in Destinos(j)

\* three articles, nothing truncated, one pair linked both ways by edges of
\* weight below 1 and one pair not linked at all
C28_Witness ==
    /\ pc = "listo"
    /\ Len(articulos) = 3
    /\ max_salientes >= Len(articulos) - 1
    /\ \E e \in Aristas : \E f \in Aristas :
           e[1] = f[2] /\ e[2] = f[1] /\ e[3] < Den
    /\ \E i \in Nodos : \E j \in Nodos :
           i # j /\ j \notin Destinos(i) /\ i \notin Destinos(j)

\* positions in the returned list of the components that hold x
PosComp(x) ==
    {p \in 1..Len(ks.componentes) : x \in Range(ks.componentes[p])}

\* C29: when kosaraju_scc returns, every edge u->v of the graph whose ends
\* lie in different components goes from a component to one that comes
\* later in the list (the list is a topological order of the condensation).
C29_OrdenTopologico ==
    pc = "scc_fin" =>
        \A e \in Aristas : \A p \in PosComp(e[1]) : \A q \in PosComp(e[2]) :
            p # q => p < q

\* a result with an edge from a component to a larger one further on
C29_Witness ==
    /\ pc = "scc_fin"
    /\ \E e \in Aristas : \E p \in PosComp(e[1]) : \E q \in PosComp(e[2]) :
           p < q /\ Len(ks.componentes[p]) < Len(ks.componentes[q])

====
